---- MODULE Spec2Model ----
(***************************************************************************)
(* Per-user conversation state machine of the relay bot (src/bot.py).      *)
(*                                                                         *)
(* The state is context.user_data of every user (keys "lang" and           *)
(* "category_id"), the handler tasks of the application with their         *)
(* position and local variables, and the administrator chat.  Every        *)
(* handler is cut at its awaits: one action is the code between two awaits *)
(* together with the outcome (delivered or raised) of the awaited call.    *)
(* Strings of the catalog are written in ASCII (the emoji prefix dropped,  *)
(* Cyrillic transliterated); only their equality matters to the code.      *)
(***************************************************************************)
EXTENDS Integers, Sequences, FiniteSets, TLC

VARIABLES
  ud,          \* context.user_data of every user: the session
  task,        \* the handler tasks: position, update, locals, calls made
  admin,       \* what the administrator chat received since the
               \* application last had no handler running
  AUTO_REPLY,  \* the AUTO_REPLY setting the process was started with
  selected     \* history, read by no handler: per user, the category of the
               \* last selection (button or typed label) that no forward,
               \* /start, language selection, change_lang or finish of the
               \* user has followed

vars == <<ud, task, admin, AUTO_REPLY, selected>>

---------------------------------------------------------------------------
(* Catalog *)

Langs == {"ru", "en", "uk"}

CATEGORY_DEFS ==
  << [id |-> "idea",      ru |-> "Est ideya",                    en |-> "I have an idea",           uk |-> "Ye ideya"],
     [id |-> "volunteer", ru |-> "Sluzhenie i volontyorstvo",    en |-> "Ministry & volunteering",  uk |-> "Sluzhinnya ta volonterstvo"],
     [id |-> "visit",     ru |-> "Nuzhdayus v poseshchenii",     en |-> "I need a visit",           uk |-> "Potrebuyu vidviduvannya"],
     [id |-> "prayer",    ru |-> "Lichnaya molitva i podderzhka", en |-> "Personal prayer & support", uk |-> "Osobysta molytva ta pidtrymka"],
     [id |-> "pastor",    ru |-> "Vstrecha s pastorom",          en |-> "Meet the pastor",          uk |-> "Zustrich z pastorom"] >>

CategoryIds == {CATEGORY_DEFS[i].id : i \in DOMAIN CATEGORY_DEFS}

LABEL_BY_ID ==
  [l \in Langs |->
     [cid \in CategoryIds |->
        LET c == CHOOSE d \in {CATEGORY_DEFS[i] : i \in DOMAIN CATEGORY_DEFS} : d.id = cid
        IN  c[l]]]

PROMPTS ==
  [ru |-> "Vyberite kategoriyu:", en |-> "Choose a category:", uk |-> "Oberit kategoriyu:"]

ACK_TEXT ==
  [ru |-> "Spasibo! My svyazhemsya s vami.",
   en |-> "Thank you! We will get back to you.",
   uk |-> "Dyakuyemo! My zvyazhemosya z vamy."]

GOODBYE_TEXT ==
  [ru |-> "Spasibo za obshchenie! Chtoby vernutsya, nazhmite /start",
   en |-> "Thank you for chatting! To return, just type /start",
   uk |-> "Dyakuyemo za spilkuvannya! Shchob povernutysya, natysnit /start"]

TRILINGUAL_GREETING == "Privet! ... Hello! ... Vitayu! ..."

LANG_PICKER_TEXT == "Choose language / Vyberite yazyk / Oberit movu:"

---------------------------------------------------------------------------
(* Python values of the session dictionary *)

\* The key is not in the dictionary; dict.get(key) then gives None.
NoKey == "<none>"

\* Truth value of an Optional[str]: None and the empty string are false.
Truthy(v) == v \notin {NoKey, ""}

EmptySession == [lang |-> NoKey, category_id |-> NoKey]

---------------------------------------------------------------------------
(* Inbound updates *)

Users == {"u1", "u2"}

\* Values a lang:<value> callback carries: buttons of the picker, and two
\* values no button of the bot carries (the data of a callback query is
\* not bound to the buttons of the message).
LangPayloads == {"ru", "en", "xx", ""}

CatPayloads == {"idea", "visit", "zz", ""}

\* callback data as <<prefix, rest>>, the string being prefix \o rest
CallbackData ==
  {<<"lang:", v>> : v \in LangPayloads} \cup {<<"cat:", v>> : v \in CatPayloads}
    \cup {<<"change_lang", "">>, <<"finish", "">>, <<"bogus", "">>}

\* msg.text: a free text, no text at all (a photo, a sticker), typed labels
Texts ==
  {"hello", ""} \cup {LABEL_BY_ID[l][c] : l \in {"ru", "en"}, c \in {"idea", "visit"}}

Update(type, data, text) == [type |-> type, data |-> data, text |-> text]

NoUpdate == Update("none", <<"", "">>, "")

Updates ==
  {Update("start", <<"", "">>, "")}
    \cup {Update("cb", d, "") : d \in CallbackData}
    \cup {Update("msg", <<"", "">>, t) : t \in Texts}

---------------------------------------------------------------------------
(* Handler tasks *)

Tasks == {1, 2}

\* One outbound call of a handler and whether it was delivered.
Call(to, what, text, lang, label, ok) ==
  [to |-> to, what |-> what, text |-> text, lang |-> lang, label |-> label, ok |-> ok]

IdleTask ==
  [pc |-> "done", user |-> "u1", evt |-> NoUpdate, pre |-> EmptySession,
   lang |-> NoKey, category_id |-> NoKey, out |-> <<>>, raised |-> FALSE]

TypeOK ==
  /\ ud \in [Users -> [lang : {NoKey} \cup LangPayloads,
                       category_id : {NoKey} \cup CatPayloads]]
  /\ AUTO_REPLY \in BOOLEAN
  /\ \A p \in Tasks : task[p].user \in Users /\ task[p].evt \in Updates \cup {NoUpdate}

Init ==
  /\ ud = [u \in Users |-> EmptySession]
  /\ task = [p \in Tasks |-> IdleTask]
  /\ admin = <<>>
  /\ AUTO_REPLY \in BOOLEAN
  /\ selected = [u \in Users |-> NoKey]

\* A call of task p to the user, appended to what the task has sent.
Sent(p, what, text, ok) ==
  Append(task[p].out, Call("user", what, text, "", "", ok))

\* an application that hands an update to a free task while others run
CanDispatchConcurrent(p) == task[p].pc = "done"

\* The application was built without concurrent_updates: the next update is
\* taken only when the handler of the previous one has returned.
CanDispatch(p) == \A q \in Tasks : task[q].pc = "done"

EntryPoint(e) ==
  CASE e.type = "start" -> "start"
    [] e.type = "cb"    -> "on_cb"
    [] e.type = "msg"   -> "on_message"

\* The application hands update e of user u to its handler.
Dispatch(p, u, e) ==
  /\ CanDispatch(p)
  /\ \A q \in Tasks : q < p => task[q].pc # "done"
  /\ task' = [task EXCEPT ![p] =
       [pc |-> EntryPoint(e), user |-> u, evt |-> e, pre |-> ud[u],
        lang |-> NoKey, category_id |-> NoKey, out |-> <<>>, raised |-> FALSE]]
  /\ admin' = IF \A q \in Tasks : task[q].pc = "done" THEN <<>> ELSE admin
  /\ UNCHANGED <<ud, AUTO_REPLY, selected>>

\* a start that drops the category and keeps the language
StartKeepLang(p) ==
  /\ task[p].pc = "start"
  /\ \E ok \in BOOLEAN :
       /\ ud' = [ud EXCEPT ![task[p].user].category_id = NoKey]
       /\ task' = [task EXCEPT ![p].out = Sent(p, "greeting", TRILINGUAL_GREETING, ok),
                               ![p].raised = ~ok,
                               ![p].pc = "done"]
  /\ selected' = [selected EXCEPT ![task[p].user] = NoKey]
  /\ UNCHANGED <<admin, AUTO_REPLY>>

\* start: clear the session, reply with the greeting and the language picker
Start(p) ==
  /\ task[p].pc = "start"
  /\ \E ok \in BOOLEAN :
       /\ ud' = [ud EXCEPT ![task[p].user] = EmptySession]
       /\ task' = [task EXCEPT ![p].out = Sent(p, "greeting", TRILINGUAL_GREETING, ok),
                               ![p].raised = ~ok,
                               ![p].pc = "done"]
  /\ selected' = [selected EXCEPT ![task[p].user] = NoKey]
  /\ UNCHANGED <<admin, AUTO_REPLY>>

---------------------------------------------------------------------------
(* on_cb *)

StartsWith(data, prefix) == data[1] = prefix

\* data.split(":", 1)[1]
AfterColon(data) == data[2]

Pop(session, key) == [session EXCEPT ![key] = NoKey]

\* the statements of on_cb's try block end by a raise or by the next await
CbStep(p, session, lang, what, text, ok, pcOk) ==
  /\ ud' = [ud EXCEPT ![task[p].user] = session]
  /\ task' = [task EXCEPT ![p].lang = lang,
                          ![p].out = Sent(p, what, text, ok),
                          ![p].pc = IF ok THEN pcOk ELSE "cb_except"]
  /\ UNCHANGED <<admin, AUTO_REPLY>>

\* a language selection that leaves the stored category in place
CbLangKeepCategory(p) ==
  /\ task[p].pc = "on_cb"
  /\ StartsWith(task[p].evt.data, "lang:")
  /\ LET lang == AfterColon(task[p].evt.data)
         s    == [ud[task[p].user] EXCEPT !.lang = lang]
     IN  \E ok \in BOOLEAN : CbStep(p, s, lang, "answer", "", ok, "cb_lang_reply")
  /\ selected' = [selected EXCEPT ![task[p].user] = NoKey]

\* data.startswith("lang:"): store the language, drop the category, answer
CbLang(p) ==
  /\ task[p].pc = "on_cb"
  /\ StartsWith(task[p].evt.data, "lang:")
  /\ LET lang == AfterColon(task[p].evt.data)
         s    == Pop([ud[task[p].user] EXCEPT !.lang = lang], "category_id")
     IN  \E ok \in BOOLEAN : CbStep(p, s, lang, "answer", "", ok, "cb_lang_reply")
  /\ selected' = [selected EXCEPT ![task[p].user] = NoKey]

\* reply_text(PROMPTS[lang], menu): PROMPTS[lang] raises KeyError for a
\* language outside the catalog
CbLangReply(p) ==
  /\ task[p].pc = "cb_lang_reply"
  /\ IF task[p].lang \in DOMAIN PROMPTS
       THEN \E ok \in BOOLEAN :
              task' = [task EXCEPT ![p].out = Sent(p, "prompt", PROMPTS[task[p].lang], ok),
                                   ![p].pc = IF ok THEN "done" ELSE "cb_except"]
       ELSE task' = [task EXCEPT ![p].pc = "cb_except"]
  /\ UNCHANGED <<ud, admin, AUTO_REPLY, selected>>

\* a change_lang that clears the whole session, the language included
CbChangeLangClear(p) ==
  /\ task[p].pc = "on_cb"
  /\ ~StartsWith(task[p].evt.data, "lang:")
  /\ task[p].evt.data = <<"change_lang", "">>
  /\ \E ok \in BOOLEAN :
       CbStep(p, EmptySession, task[p].lang, "answer", "", ok, "cb_change_edit")
  /\ selected' = [selected EXCEPT ![task[p].user] = NoKey]

\* a change_lang that leaves the stored category in place
CbChangeLangKeepCategory(p) ==
  /\ task[p].pc = "on_cb"
  /\ ~StartsWith(task[p].evt.data, "lang:")
  /\ task[p].evt.data = <<"change_lang", "">>
  /\ \E ok \in BOOLEAN :
       CbStep(p, ud[task[p].user], task[p].lang, "answer", "", ok, "cb_change_edit")
  /\ selected' = [selected EXCEPT ![task[p].user] = NoKey]

\* data == "change_lang": drop the category, keep the language, answer
CbChangeLang(p) ==
  /\ task[p].pc = "on_cb"
  /\ ~StartsWith(task[p].evt.data, "lang:")
  /\ task[p].evt.data = <<"change_lang", "">>
  /\ \E ok \in BOOLEAN :
       CbStep(p, Pop(ud[task[p].user], "category_id"), task[p].lang,
              "answer", "", ok, "cb_change_edit")
  /\ selected' = [selected EXCEPT ![task[p].user] = NoKey]

\* data == "finish": remember the language (default "ru"), clear, answer
CbFinish(p) ==
  /\ task[p].pc = "on_cb"
  /\ ~StartsWith(task[p].evt.data, "lang:")
  /\ task[p].evt.data = <<"finish", "">>
  /\ LET stored == ud[task[p].user].lang
         lang   == IF stored = NoKey THEN "ru" ELSE stored
     IN  \E ok \in BOOLEAN :
           CbStep(p, EmptySession, lang, "answer", "", ok, "cb_finish_edit")
  /\ selected' = [selected EXCEPT ![task[p].user] = NoKey]

\* edit_reply_markup(None) inside its own try/except: a failure is dropped
CbEditMarkup(p) ==
  /\ task[p].pc \in {"cb_change_edit", "cb_finish_edit"}
  /\ \E ok \in BOOLEAN :
       task' = [task EXCEPT ![p].out = Sent(p, "edit_markup", "", ok),
                            ![p].pc = IF task[p].pc = "cb_change_edit"
                                        THEN "cb_change_reply" ELSE "cb_finish_reply"]
  /\ UNCHANGED <<ud, admin, AUTO_REPLY, selected>>

CbChangeReply(p) ==
  /\ task[p].pc = "cb_change_reply"
  /\ \E ok \in BOOLEAN :
       task' = [task EXCEPT ![p].out = Sent(p, "picker", LANG_PICKER_TEXT, ok),
                            ![p].pc = IF ok THEN "done" ELSE "cb_except"]
  /\ UNCHANGED <<ud, admin, AUTO_REPLY, selected>>

\* GOODBYE_TEXT.get(lang, GOODBYE_TEXT["en"])
Goodbye(lang) == IF lang \in DOMAIN GOODBYE_TEXT THEN GOODBYE_TEXT[lang] ELSE GOODBYE_TEXT["en"]

CbFinishReply(p) ==
  /\ task[p].pc = "cb_finish_reply"
  /\ \E ok \in BOOLEAN :
       task' = [task EXCEPT ![p].out = Sent(p, "goodbye", Goodbye(task[p].lang), ok),
                            ![p].pc = IF ok THEN "done" ELSE "cb_except"]
  /\ UNCHANGED <<ud, admin, AUTO_REPLY, selected>>

\* a category selection that confirms with the category prompt
CbCatShowsPrompt(p) ==
  /\ task[p].pc = "on_cb"
  /\ ~StartsWith(task[p].evt.data, "lang:")
  /\ task[p].evt.data \notin {<<"change_lang", "">>, <<"finish", "">>}
  /\ StartsWith(task[p].evt.data, "cat:")
  /\ LET s == [ud[task[p].user] EXCEPT !.category_id = AfterColon(task[p].evt.data)]
     IN  \E ok \in BOOLEAN :
           CbStep(p, s, ud[task[p].user].lang, "answer", "", ok, "cb_lang_reply")
  /\ selected' = [selected EXCEPT ![task[p].user] = AfterColon(task[p].evt.data)]

\* data.startswith("cat:"): store the category id, answer, no reply
CbCat(p) ==
  /\ task[p].pc = "on_cb"
  /\ ~StartsWith(task[p].evt.data, "lang:")
  /\ task[p].evt.data \notin {<<"change_lang", "">>, <<"finish", "">>}
  /\ StartsWith(task[p].evt.data, "cat:")
  /\ LET s == [ud[task[p].user] EXCEPT !.category_id = AfterColon(task[p].evt.data)]
     IN  \E ok \in BOOLEAN : CbStep(p, s, task[p].lang, "answer", "", ok, "done")
  /\ selected' = [selected EXCEPT ![task[p].user] = AfterColon(task[p].evt.data)]

\* no branch matches: the handler falls off its end
CbUnknown(p) ==
  /\ task[p].pc = "on_cb"
  /\ ~StartsWith(task[p].evt.data, "lang:")
  /\ task[p].evt.data \notin {<<"change_lang", "">>, <<"finish", "">>}
  /\ ~StartsWith(task[p].evt.data, "cat:")
  /\ task' = [task EXCEPT ![p].pc = "done"]
  /\ UNCHANGED <<ud, admin, AUTO_REPLY, selected>>

\* except Exception: log, answer the query once more, drop a second failure
CbExcept(p) ==
  /\ task[p].pc = "cb_except"
  /\ \E ok \in BOOLEAN :
       task' = [task EXCEPT ![p].out = Sent(p, "answer", "", ok), ![p].pc = "done"]
  /\ UNCHANGED <<ud, admin, AUTO_REPLY, selected>>

OnCb(p) ==
  \/ CbLang(p) \/ CbLangReply(p)
  \/ CbChangeLang(p) \/ CbChangeReply(p)
  \/ CbFinish(p) \/ CbFinishReply(p)
  \/ CbEditMarkup(p)
  \/ CbCat(p) \/ CbUnknown(p) \/ CbExcept(p)

---------------------------------------------------------------------------
(* on_message *)

KeyError == "<KeyError>"

\* a label match that looks through the labels of every language
is_menu_label_any_lang(text, lang) ==
  IF ~Truthy(lang) \/ ~Truthy(text) THEN NoKey
  ELSE IF lang \notin DOMAIN LABEL_BY_ID THEN KeyError
  ELSE LET hits == {i \in DOMAIN CATEGORY_DEFS :
                      \E l \in Langs : LABEL_BY_ID[l][CATEGORY_DEFS[i].id] = text}
       IN  IF hits = {} THEN NoKey
           ELSE CATEGORY_DEFS[CHOOSE i \in hits : \A j \in hits : i <= j].id

\* The first category, in catalog order, whose label in lang equals text;
\* None without a language or a text; LABEL_BY_ID[lang] raises KeyError
\* for a language outside the catalog.
is_menu_label(text, lang) ==
  IF ~Truthy(lang) \/ ~Truthy(text) THEN NoKey
  ELSE IF lang \notin DOMAIN LABEL_BY_ID THEN KeyError
  ELSE LET hits == {i \in DOMAIN CATEGORY_DEFS :
                      LABEL_BY_ID[lang][CATEGORY_DEFS[i].id] = text}
       IN  IF hits = {} THEN NoKey
           ELSE CATEGORY_DEFS[CHOOSE i \in hits : \A j \in hits : i <= j].id

\* a forward decided by the category alone
ForwardsAnyCategory(category_id, lang) == Truthy(category_id)

\* if category_id and lang: the next message is forwarded
Forwards(category_id, lang) == Truthy(category_id) /\ Truthy(lang)

\* LABEL_BY_ID[lang].get(category_id, category_id)
HeaderLabel(lang, category_id) ==
  IF category_id \in DOMAIN LABEL_BY_ID[lang] THEN LABEL_BY_ID[lang][category_id]
  ELSE category_id

AdminMsg(u, what, text, lang, label) ==
  [from |-> u, what |-> what, text |-> text, lang |-> lang, label |-> label]

\* show_menu(update, lang): PROMPTS[lang] raises KeyError before the send,
\* and neither that nor a failed send is caught; t is the task table with
\* the locals of the caller
ShowMenu(t, p, lang, ok) ==
  IF lang \in DOMAIN PROMPTS
    THEN task' = [t EXCEPT ![p].out = Append(t[p].out, Call("user", "prompt", PROMPTS[lang], "", "", ok)),
                           ![p].raised = ~ok,
                           ![p].pc = "done"]
    ELSE task' = [t EXCEPT ![p].raised = TRUE, ![p].pc = "done"]

\* read the session; a typed label stores its category and returns
MsgTypedLabel(p) ==
  LET u == task[p].user
      typed_cid == is_menu_label(task[p].evt.text, ud[u].lang)
  IN  /\ task[p].pc = "on_message"
      /\ typed_cid # KeyError
      /\ Truthy(typed_cid)
      /\ ud' = [ud EXCEPT ![u].category_id = typed_cid]
      /\ task' = [task EXCEPT ![p].lang = ud[u].lang,
                              ![p].category_id = ud[u].category_id,
                              ![p].pc = "done"]
      /\ selected' = [selected EXCEPT ![u] = typed_cid]
      /\ UNCHANGED <<admin, AUTO_REPLY>>

\* a lookup by a stored language outside the catalog ends the handler:
\* in is_menu_label, or at LABEL_BY_ID[lang] of the forward branch
MsgKeyError(p) ==
  LET u == task[p].user
      lang == ud[u].lang
      category_id == ud[u].category_id
      typed_cid == is_menu_label(task[p].evt.text, lang)
  IN  /\ task[p].pc = "on_message"
      /\ \/ typed_cid = KeyError
         \/ /\ ~Truthy(typed_cid)
            /\ Forwards(category_id, lang)
            /\ lang \notin DOMAIN LABEL_BY_ID
      /\ task' = [task EXCEPT ![p].lang = lang,
                              ![p].category_id = category_id,
                              ![p].pc = "done",
                              ![p].raised = TRUE]
      /\ UNCHANGED <<ud, admin, AUTO_REPLY, selected>>

\* a header in a try block of its own: the copy follows a failed header
MsgHeaderThenCopy(p) ==
  LET u == task[p].user
      lang == ud[u].lang
      category_id == ud[u].category_id
      typed_cid == is_menu_label(task[p].evt.text, lang)
  IN  /\ task[p].pc = "on_message"
      /\ typed_cid # KeyError
      /\ ~Truthy(typed_cid)
      /\ Forwards(category_id, lang)
      /\ lang \in DOMAIN LABEL_BY_ID
      /\ \E ok \in BOOLEAN :
           LET label == HeaderLabel(lang, category_id)
           IN  /\ task' = [task EXCEPT
                     ![p].lang = lang,
                     ![p].category_id = category_id,
                     ![p].out = Append(task[p].out, Call("admin", "header", "", lang, label, ok)),
                     ![p].pc = "fwd_copy"]
               /\ admin' = IF ok THEN Append(admin, AdminMsg(u, "header", "", lang, label))
                           ELSE admin
      /\ selected' = [selected EXCEPT ![u] = NoKey]
      /\ UNCHANGED <<ud, AUTO_REPLY>>

\* category and language chosen: build the header and send it to the admin
MsgHeader(p) ==
  LET u == task[p].user
      lang == ud[u].lang
      category_id == ud[u].category_id
      typed_cid == is_menu_label(task[p].evt.text, lang)
  IN  /\ task[p].pc = "on_message"
      /\ typed_cid # KeyError
      /\ ~Truthy(typed_cid)
      /\ Forwards(category_id, lang)
      /\ lang \in DOMAIN LABEL_BY_ID
      /\ \E ok \in BOOLEAN :
           LET label == HeaderLabel(lang, category_id)
           IN  /\ task' = [task EXCEPT
                     ![p].lang = lang,
                     ![p].category_id = category_id,
                     ![p].out = Append(task[p].out, Call("admin", "header", "", lang, label, ok)),
                     ![p].pc = IF ok THEN "fwd_copy" ELSE "fwd_after"]
               /\ admin' = IF ok THEN Append(admin, AdminMsg(u, "header", "", lang, label))
                           ELSE admin
      /\ selected' = [selected EXCEPT ![u] = NoKey]
      /\ UNCHANGED <<ud, AUTO_REPLY>>

\* a copy whose failure is not caught and ends the handler
MsgCopyRaises(p) ==
  /\ task[p].pc = "fwd_copy"
  /\ \E ok \in BOOLEAN :
       /\ task' = [task EXCEPT
             ![p].out = Append(task[p].out, Call("admin", "copy", task[p].evt.text, "", "", ok)),
             ![p].raised = ~ok,
             ![p].pc = IF ok THEN "fwd_after" ELSE "done"]
       /\ admin' = IF ok THEN Append(admin, AdminMsg(task[p].user, "copy", task[p].evt.text, "", ""))
                   ELSE admin
  /\ UNCHANGED <<ud, AUTO_REPLY, selected>>

\* msg.copy(chat_id=admin_chat_id()), reached only when the header was sent
MsgCopy(p) ==
  /\ task[p].pc = "fwd_copy"
  /\ \E ok \in BOOLEAN :
       /\ task' = [task EXCEPT
             ![p].out = Append(task[p].out, Call("admin", "copy", task[p].evt.text, "", "", ok)),
             ![p].pc = "fwd_after"]
       /\ admin' = IF ok THEN Append(admin, AdminMsg(task[p].user, "copy", task[p].evt.text, "", ""))
                   ELSE admin
  /\ UNCHANGED <<ud, AUTO_REPLY, selected>>

\* an acknowledgement that does not look at the setting
AcknowledgesAlways(p) == task[p].lang \in {"ru", "en", "uk"}

Acknowledges(p) == AUTO_REPLY /\ task[p].lang \in {"ru", "en", "uk"}

\* the acknowledgement, in its own try/except
MsgAck(p) ==
  /\ task[p].pc = "fwd_after"
  /\ Acknowledges(p)
  /\ \E ok \in BOOLEAN :
       task' = [task EXCEPT ![p].out = Sent(p, "ack", ACK_TEXT[task[p].lang], ok),
                            ![p].pc = "fwd_menu"]
  /\ UNCHANGED <<ud, admin, AUTO_REPLY, selected>>

\* a reset that keeps the category when the forward was not delivered
MsgResetWhenDelivered(p) ==
  /\ \/ task[p].pc = "fwd_menu"
     \/ task[p].pc = "fwd_after" /\ ~Acknowledges(p)
  /\ ud' = [ud EXCEPT ![task[p].user] =
              IF \A i \in DOMAIN task[p].out : task[p].out[i].to = "admin" => task[p].out[i].ok
                THEN Pop(ud[task[p].user], "category_id")
                ELSE ud[task[p].user]]
  /\ \E ok \in BOOLEAN : ShowMenu(task, p, task[p].lang, ok)
  /\ UNCHANGED <<admin, AUTO_REPLY, selected>>

\* user_data.pop("category_id", None); show_menu(update, lang)
MsgReset(p) ==
  /\ \/ task[p].pc = "fwd_menu"
     \/ task[p].pc = "fwd_after" /\ ~Acknowledges(p)
  /\ ud' = [ud EXCEPT ![task[p].user] = Pop(ud[task[p].user], "category_id")]
  /\ \E ok \in BOOLEAN : ShowMenu(task, p, task[p].lang, ok)
  /\ UNCHANGED <<admin, AUTO_REPLY, selected>>

\* no language yet: only the language picker
MsgNoLang(p) ==
  LET u == task[p].user
      lang == ud[u].lang
      category_id == ud[u].category_id
      typed_cid == is_menu_label(task[p].evt.text, lang)
  IN  /\ task[p].pc = "on_message"
      /\ typed_cid # KeyError
      /\ ~Truthy(typed_cid)
      /\ ~Forwards(category_id, lang)
      /\ ~Truthy(lang)
      /\ \E ok \in BOOLEAN :
           task' = [task EXCEPT ![p].lang = lang,
                                ![p].category_id = category_id,
                                ![p].out = Sent(p, "picker", LANG_PICKER_TEXT, ok),
                                ![p].raised = ~ok,
                                ![p].pc = "done"]
      /\ UNCHANGED <<ud, admin, AUTO_REPLY, selected>>

\* language set, no category: the category menu
MsgShowMenu(p) ==
  LET u == task[p].user
      lang == ud[u].lang
      category_id == ud[u].category_id
      typed_cid == is_menu_label(task[p].evt.text, lang)
  IN  /\ task[p].pc = "on_message"
      /\ typed_cid # KeyError
      /\ ~Truthy(typed_cid)
      /\ ~Forwards(category_id, lang)
      /\ Truthy(lang)
      /\ \E ok \in BOOLEAN :
           ShowMenu([task EXCEPT ![p].lang = lang, ![p].category_id = category_id], p, lang, ok)
      /\ UNCHANGED <<ud, admin, AUTO_REPLY, selected>>

OnMessage(p) ==
  \/ MsgTypedLabel(p) \/ MsgKeyError(p)
  \/ MsgHeader(p) \/ MsgCopy(p) \/ MsgAck(p) \/ MsgReset(p)
  \/ MsgNoLang(p) \/ MsgShowMenu(p)

---------------------------------------------------------------------------
(* What a handler task shows once it has acted *)

Acted(p) == task[p].evt.type # "none" /\ task[p].pc \notin {"start", "on_cb", "on_message"}

Finished(p) == task[p].evt.type # "none" /\ task[p].pc = "done"

IsMsg(p) == task[p].evt.type = "msg"

IsCb(p, data) == task[p].evt.type = "cb" /\ task[p].evt.data = data

\* the calls of task p addressed to the administrator / to the user
AdminCalls(p) == SelectSeq(task[p].out, LAMBDA c : c.to = "admin")

\* every call the task has made was delivered
AllDelivered(p) == \A i \in DOMAIN task[p].out : task[p].out[i].ok

AllLabels == {LABEL_BY_ID[l][c] : l \in Langs, c \in CategoryIds}

UserCall(what, text, ok) == Call("user", what, text, "", "", ok)

---------------------------------------------------------------------------
(* C1 *)

\* C1: in every reachable session state, if category_id is set then lang
\* is set.
C1_CategoryImpliesLang ==
  \A u \in Users : ud[u].category_id # NoKey => ud[u].lang # NoKey

---------------------------------------------------------------------------
(* C2 *)

\* C2: a free-text message received while the language is unset (no key,
\* or a value Python takes for false) makes no call to the administrator,
\* with or without a stored category; the session stays as it was and the
\* one call of the handler is the language picker to the user.
C2_NoForwardWithoutLanguage ==
  \A p \in Tasks :
    (IsMsg(p) /\ ~Truthy(task[p].pre.lang)) =>
      /\ AdminCalls(p) = <<>>
      /\ admin = <<>>
      /\ ud[task[p].user] = task[p].pre
      /\ Finished(p) =>
           \E ok \in BOOLEAN : task[p].out = <<UserCall("picker", LANG_PICKER_TEXT, ok)>>

\* a message arrived for a session holding a category but no language and
\* was answered with the picker
C2_Witness ==
  \E p \in Tasks :
    /\ Finished(p) /\ IsMsg(p)
    /\ task[p].evt.text = "hello"
    /\ task[p].pre.lang = NoKey
    /\ task[p].pre.category_id = "idea"
    /\ task[p].out = <<UserCall("picker", LANG_PICKER_TEXT, TRUE)>>

---------------------------------------------------------------------------
(* C3 *)

\* C3: a free-text message that is no category label, for a session with
\* language and category both set, all calls delivered: the administrator
\* receives exactly one header (the session's language, the label of the
\* category in that language) followed by exactly one copy of the message,
\* and the session ends with the category unset and the language unchanged.
C3_ForwardOnce ==
  \A p \in Tasks :
    ( /\ Finished(p) /\ IsMsg(p)
      /\ Truthy(task[p].pre.lang) /\ Truthy(task[p].pre.category_id)
      /\ Truthy(task[p].evt.text) /\ task[p].evt.text \notin AllLabels
      /\ AllDelivered(p) ) =>
      /\ task[p].pre.lang \in Langs
      /\ task[p].pre.category_id \in CategoryIds
      /\ admin = << AdminMsg(task[p].user, "header", "", task[p].pre.lang,
                             LABEL_BY_ID[task[p].pre.lang][task[p].pre.category_id]),
                    AdminMsg(task[p].user, "copy", task[p].evt.text, "", "") >>
      /\ ud[task[p].user] = [lang |-> task[p].pre.lang, category_id |-> NoKey]

---------------------------------------------------------------------------
(* C4 *)

\* C4: a free-text event of a user with language and category set produces
\* one forward, and in what the administrator received while it was handled
\* (the messages of any other handler running meanwhile included) the
\* header of the user is immediately followed by the content of the same
\* user, with nothing of another user around or between them.
C4_PairedForward ==
  \A p \in Tasks :
    ( /\ Finished(p) /\ IsMsg(p)
      /\ Truthy(task[p].pre.lang) /\ Truthy(task[p].pre.category_id)
      /\ Truthy(task[p].evt.text) /\ task[p].evt.text \notin AllLabels
      /\ AllDelivered(p) ) =>
      \E i \in DOMAIN admin :
        /\ i + 1 \in DOMAIN admin
        /\ admin[i].what = "header" /\ admin[i].from = task[p].user
        /\ admin[i + 1].what = "copy" /\ admin[i + 1].from = task[p].user
        /\ admin[i + 1].text = task[p].evt.text
        /\ \A j \in DOMAIN admin : admin[j].from = task[p].user => j \in {i, i + 1}

---------------------------------------------------------------------------
(* C5 *)

\* The session an update leaves when every call of its handler is delivered.
SessionAfter(pre, e) ==
  CASE e.type = "start" -> EmptySession
    [] e.type = "cb" /\ e.data[1] = "lang:" -> [lang |-> e.data[2], category_id |-> NoKey]
    [] e.type = "cb" /\ e.data = <<"change_lang", "">> -> [pre EXCEPT !.category_id = NoKey]
    [] e.type = "cb" /\ e.data = <<"finish", "">> -> EmptySession
    [] e.type = "cb" /\ e.data[1] = "cat:" -> [pre EXCEPT !.category_id = e.data[2]]
    [] e.type = "msg" /\ pre.lang \in Langs /\ e.text \in {LABEL_BY_ID[pre.lang][c] : c \in CategoryIds} ->
         [pre EXCEPT !.category_id =
            CHOOSE c \in CategoryIds : LABEL_BY_ID[pre.lang][c] = e.text]
    [] e.type = "msg" /\ pre.lang \in Langs /\ Truthy(pre.category_id)
         /\ e.text \notin {LABEL_BY_ID[pre.lang][c] : c \in CategoryIds} ->
         [pre EXCEPT !.category_id = NoKey]
    [] OTHER -> pre

\* C5: whichever calls of a handler fail, the session ends as it does when
\* every call is delivered (a forward clears the category also when the
\* header or the copy fails); and nothing is sent again later: the calls to
\* the administrator are those of a free-text handler for its own message,
\* at most one header and one copy.
C5_FailureKeepsTransition ==
  \A p \in Tasks :
    /\ Finished(p) => ud[task[p].user] = SessionAfter(task[p].pre, task[p].evt)
    /\ Len(AdminCalls(p)) <= 2
    /\ \A i \in DOMAIN AdminCalls(p) :
         /\ IsMsg(p)
         /\ Forwards(task[p].pre.category_id, task[p].pre.lang)
         /\ AdminCalls(p)[i].what = IF i = 1 THEN "header" ELSE "copy"
         /\ AdminCalls(p)[i].what = "copy" => AdminCalls(p)[i].text = task[p].evt.text

\* the header of a forward failed and the category was cleared all the same
C5_Witness ==
  \E p \in Tasks :
    /\ Finished(p) /\ IsMsg(p)
    /\ task[p].pre = [lang |-> "en", category_id |-> "idea"]
    /\ task[p].evt.text = "hello"
    /\ Len(AdminCalls(p)) = 1 /\ ~AdminCalls(p)[1].ok
    /\ ud[task[p].user] = [lang |-> "en", category_id |-> NoKey]

---------------------------------------------------------------------------
(* C6 *)

\* C6: /start, from any session, leaves language and category unset; its
\* one call is the greeting with the language picker to the user, and the
\* administrator receives nothing.
C6_StartClears ==
  \A p \in Tasks :
    (Finished(p) /\ task[p].evt.type = "start") =>
      /\ ud[task[p].user] = EmptySession
      /\ \E ok \in BOOLEAN : task[p].out = <<UserCall("greeting", TRILINGUAL_GREETING, ok)>>
      /\ admin = <<>>

\* /start handled for a session that held a language and a category
C6_Witness ==
  \E p \in Tasks :
    /\ Finished(p) /\ task[p].evt.type = "start"
    /\ task[p].pre = [lang |-> "en", category_id |-> "visit"]
    /\ ud[task[p].user] = EmptySession
    /\ task[p].out = <<UserCall("greeting", TRILINGUAL_GREETING, TRUE)>>

---------------------------------------------------------------------------
(* C7 *)

Farewells(p) == SelectSeq(task[p].out, LAMBDA c : c.what = "goodbye")

\* C7: the finish callback, all calls delivered, clears language and
\* category and sends exactly one farewell, in the language the session
\* held before the clear, or in a default language when it held none.
C7_FinishFarewell ==
  \A p \in Tasks :
    (Finished(p) /\ IsCb(p, <<"finish", "">>) /\ AllDelivered(p)) =>
      /\ ud[task[p].user] = EmptySession
      /\ Len(Farewells(p)) = 1
      /\ IF ~Truthy(task[p].pre.lang)
           THEN Farewells(p)[1].text \in {GOODBYE_TEXT[l] : l \in Langs}
           ELSE /\ task[p].pre.lang \in Langs
                /\ Farewells(p)[1].text = GOODBYE_TEXT[task[p].pre.lang]

---------------------------------------------------------------------------
(* C8 *)

\* C8: once lang:en has acted, whatever the session held before (a category
\* of an earlier cycle, or the result of a first lang:en), the session is
\* {language en, category unset}, and no call goes to the administrator.
C8_LangIdempotent ==
  \A p \in Tasks :
    (Acted(p) /\ IsCb(p, <<"lang:", "en">>)) =>
      /\ ud[task[p].user] = [lang |-> "en", category_id |-> NoKey]
      /\ AdminCalls(p) = <<>>
      /\ admin = <<>>

\* lang:en applied to the session a first lang:en leaves
C8_Witness ==
  \E p \in Tasks :
    /\ Finished(p) /\ IsCb(p, <<"lang:", "en">>)
    /\ task[p].pre = [lang |-> "en", category_id |-> NoKey]
    /\ ud[task[p].user] = task[p].pre
    /\ AllDelivered(p)

---------------------------------------------------------------------------
(* C9 *)

LabelsOf(lang) == {LABEL_BY_ID[lang][c] : c \in CategoryIds}

\* C9: for a session with a language, a text equal to the label of X in
\* that language stores category X, the session the cat:X callback leaves,
\* and makes no call at all; a text that is a label in other languages only
\* selects nothing: the category stays or is cleared by a forward.
C9_TypedLabelSelects ==
  \A p \in Tasks :
    /\ (Finished(p) /\ IsMsg(p) /\ task[p].pre.lang \in Langs) =>
         \A c \in CategoryIds :
           task[p].evt.text = LABEL_BY_ID[task[p].pre.lang][c] =>
             /\ ud[task[p].user] = [task[p].pre EXCEPT !.category_id = c]
             /\ task[p].out = <<>>
             /\ admin = <<>>
    /\ (Finished(p) /\ task[p].evt.type = "cb" /\ task[p].evt.data[1] = "cat:") =>
         ud[task[p].user] = [task[p].pre EXCEPT !.category_id = task[p].evt.data[2]]
    /\ ( /\ Finished(p) /\ IsMsg(p) /\ task[p].pre.lang # NoKey
         /\ task[p].evt.text \in AllLabels
         /\ task[p].pre.lang \in Langs => task[p].evt.text \notin LabelsOf(task[p].pre.lang) ) =>
         ud[task[p].user] \in {task[p].pre, [task[p].pre EXCEPT !.category_id = NoKey]}

\* the label of "visit" typed in English replaced the category "idea"
C9_Witness ==
  \E p \in Tasks :
    /\ Finished(p) /\ IsMsg(p)
    /\ task[p].pre = [lang |-> "en", category_id |-> "idea"]
    /\ task[p].evt.text = LABEL_BY_ID["en"]["visit"]
    /\ ud[task[p].user] = [lang |-> "en", category_id |-> "visit"]

---------------------------------------------------------------------------
(* C10 *)

\* C10: a free-text message that matches no label, for a session with a
\* language and no category, all calls delivered: language and category
\* stay, nothing goes to the administrator, and the user is sent the
\* category prompt of the session's language.
C10_PromptAgain ==
  \A p \in Tasks :
    ( /\ Finished(p) /\ IsMsg(p)
      /\ Truthy(task[p].pre.lang) /\ task[p].pre.category_id = NoKey
      /\ Truthy(task[p].evt.text) /\ task[p].evt.text \notin AllLabels
      /\ AllDelivered(p) ) =>
      /\ ud[task[p].user] = task[p].pre
      /\ admin = <<>>
      /\ task[p].pre.lang \in Langs
      /\ task[p].out = <<UserCall("prompt", PROMPTS[task[p].pre.lang], TRUE)>>

---------------------------------------------------------------------------
(* C11 *)

Whats(calls) == [i \in DOMAIN calls |-> calls[i].what]

\* C11 as claimed: after the change_lang callback the session is one with
\* no language chosen and no category, so that a following free text is
\* answered with the language picker.
C11_ChangeLangUnsetsLanguage ==
  \A p \in Tasks :
    (Finished(p) /\ IsCb(p, <<"change_lang", "">>)) =>
      /\ ~Truthy(ud[task[p].user].lang)
      /\ ud[task[p].user].category_id = NoKey

\* C11 as amended: the change_lang callback clears the category and keeps
\* the stored language as it was; it never sends the greeting, and when its
\* calls are delivered they are the answer, the removal of the keyboard and
\* the language picker.
C11_ChangeLangKeepsLanguage ==
  \A p \in Tasks :
    (Acted(p) /\ IsCb(p, <<"change_lang", "">>)) =>
      /\ ud[task[p].user] = [lang |-> task[p].pre.lang, category_id |-> NoKey]
      /\ \A i \in DOMAIN task[p].out : task[p].out[i].what # "greeting"
      /\ AdminCalls(p) = <<>>
      /\ (Finished(p) /\ AllDelivered(p)) =>
           /\ Whats(task[p].out) = <<"answer", "edit_markup", "picker">>
           /\ task[p].out[3].text = LANG_PICKER_TEXT

\* change_lang handled for a session with language en and a category: the
\* language is still en
C11_Witness ==
  \E p \in Tasks :
    /\ Finished(p) /\ IsCb(p, <<"change_lang", "">>)
    /\ task[p].pre = [lang |-> "en", category_id |-> "idea"]
    /\ ud[task[p].user] = [lang |-> "en", category_id |-> NoKey]
    /\ AllDelivered(p)

---------------------------------------------------------------------------
(* C12 *)

\* callback data of no known kind, or of kind lang: / cat: with a value
\* outside the supported languages / the catalog
Malformed(data) ==
  \/ /\ data[1] \notin {"lang:", "cat:"}
     /\ data \notin {<<"change_lang", "">>, <<"finish", "">>}
  \/ data[1] = "lang:" /\ data[2] \notin Langs
  \/ data[1] = "cat:" /\ data[2] \notin CategoryIds

\* C12: a callback with unknown or malformed data is ignored: language and
\* category stay as they were and no message goes to the user or to the
\* administrator.
C12_MalformedIgnored ==
  \A p \in Tasks :
    (Finished(p) /\ task[p].evt.type = "cb" /\ Malformed(task[p].evt.data)) =>
      /\ ud[task[p].user] = task[p].pre
      /\ \A i \in DOMAIN task[p].out : task[p].out[i].what = "answer"
      /\ admin = <<>>

---------------------------------------------------------------------------
(* C13 *)

\* C13: in every reachable state the stored language is unset (or empty,
\* which the handlers take for unset) or one of ru, en, uk.
C13_LangInCatalog ==
  \A u \in Users : Truthy(ud[u].lang) => ud[u].lang \in Langs

---------------------------------------------------------------------------
(* C14 *)

\* C14: in every reachable state the stored category is unset (or empty,
\* which the handlers take for unset) or one of the five catalog ids, and
\* every header sent to the administrator carries a catalog label.
C14_CategoryInCatalog ==
  /\ \A u \in Users : Truthy(ud[u].category_id) => ud[u].category_id \in CategoryIds
  /\ \A i \in DOMAIN admin : admin[i].what = "header" => admin[i].label \in AllLabels

---------------------------------------------------------------------------
(* C15 *)

Acks(p) == SelectSeq(task[p].out, LAMBDA c : c.what = "ack")

\* C15: a free-text handler that forwards (it called the administrator)
\* sends the user exactly one acknowledgement, in the language of the
\* session, when AUTO_REPLY is on, and none when it is off; a handler that
\* does not forward sends none.
C15_OneAcknowledgement ==
  \A p \in Tasks :
    /\ Finished(p) =>
         Len(Acks(p)) = IF AdminCalls(p) # <<>> /\ AUTO_REPLY THEN 1 ELSE 0
    /\ Len(Acks(p)) <= 1
    /\ \A i \in DOMAIN Acks(p) :
         /\ IsMsg(p) /\ AdminCalls(p) # <<>> /\ AUTO_REPLY
         /\ task[p].pre.lang \in Langs
         /\ Acks(p)[i].to = "user"
         /\ Acks(p)[i].text = ACK_TEXT[task[p].pre.lang]

\* a forward from an English session was acknowledged in English
C15_Witness ==
  \E p \in Tasks :
    /\ Finished(p) /\ IsMsg(p) /\ AUTO_REPLY
    /\ task[p].pre = [lang |-> "en", category_id |-> "idea"]
    /\ Len(AdminCalls(p)) = 2 /\ AllDelivered(p)
    /\ Whats(Acks(p)) = <<"ack">>
    /\ Acks(p)[1].text = ACK_TEXT["en"]

---------------------------------------------------------------------------
(* C16 *)

Running(p) == task[p].pc # "done"

InForward(p) == task[p].pc \in {"fwd_copy", "fwd_after", "fwd_menu"}

\* C16: handlers of one user exclude each other over the session: while a
\* handler of U runs no other handler of U runs, and between the read and
\* the clear of a forward the session of U is the one the handler read (no
\* second forward has consumed the category, no new selection is there to
\* be erased).
C16_SameUserExclusive ==
  \A p \in Tasks :
    /\ \A q \in Tasks \ {p} :
         (Running(p) /\ Running(q)) => task[p].user # task[q].user
    /\ InForward(p) =>
         /\ ud[task[p].user] = task[p].pre
         /\ task[p].category_id = task[p].pre.category_id
         /\ task[p].lang = task[p].pre.lang

\* a forward of a user is between its read and its clear
C16_Witness ==
  \E p \in Tasks :
    /\ task[p].pc = "fwd_menu"
    /\ task[p].pre = [lang |-> "en", category_id |-> "idea"]
    /\ ud[task[p].user] = task[p].pre

---------------------------------------------------------------------------
(* C17 *)

\* C17: a category selection, by the cat:<id> callback or by the typed
\* label of the stored language, stores category = id, leaves the language
\* as it was and is silent: the callback only answers the query, the typed
\* label makes no call, and nothing goes to the administrator.
C17_SilentSelection ==
  \A p \in Tasks :
    /\ ( /\ Acted(p) /\ task[p].evt.type = "cb" /\ task[p].evt.data[1] = "cat:"
         /\ task[p].pre.lang # NoKey ) =>
         /\ ud[task[p].user] = [lang |-> task[p].pre.lang, category_id |-> task[p].evt.data[2]]
         /\ \A i \in DOMAIN task[p].out : task[p].out[i].what = "answer"
         /\ admin = <<>>
    /\ ( /\ Acted(p) /\ IsMsg(p) /\ task[p].pre.lang \in Langs
         /\ task[p].evt.text \in LabelsOf(task[p].pre.lang) ) =>
         /\ ud[task[p].user].lang = task[p].pre.lang
         /\ LABEL_BY_ID[task[p].pre.lang][ud[task[p].user].category_id] = task[p].evt.text
         /\ task[p].out = <<>>
         /\ admin = <<>>

\* the button cat:visit pressed in an English session
C17_Witness ==
  \E p \in Tasks :
    /\ Finished(p) /\ IsCb(p, <<"cat:", "visit">>)
    /\ task[p].pre = [lang |-> "en", category_id |-> NoKey]
    /\ ud[task[p].user] = [lang |-> "en", category_id |-> "visit"]
    /\ Whats(task[p].out) = <<"answer">> /\ AllDelivered(p)

---------------------------------------------------------------------------
(* C18 *)

\* C18: whenever a handler of user U starts a forward (it leaves its read
\* for the header call), a category selection of U is pending, followed by
\* no forward, /start, language selection, change_lang or finish of U, and
\* the header carries the label of that very selection.
C18_ForwardConsumesSelection ==
  [][ \A p \in Tasks :
        (task[p].pc = "on_message" /\ task'[p].pc \in {"fwd_copy", "fwd_after"}) =>
          LET u == task[p].user
              header == task'[p].out[Len(task'[p].out)]
          IN  /\ Truthy(selected[u])
              /\ selected'[u] = NoKey
              /\ task'[p].category_id = selected[u]
              /\ header.what = "header"
              /\ header.label = HeaderLabel(task'[p].lang, selected[u]) ]_vars

\* a forward has started and has used up the selection of its user
C18_Witness ==
  \E p \in Tasks :
    /\ task[p].pc = "fwd_copy"
    /\ task[p].category_id = "visit"
    /\ selected[task[p].user] = NoKey
    /\ ud[task[p].user].category_id = "visit"

---------------------------------------------------------------------------
(* C19 *)

\* C19: a copy is attempted only right after the header of the same event
\* was delivered: a failed header ends the calls to the administrator, and
\* in the administrator chat every copy stands directly behind a header of
\* the same user (a header may stand without its copy).
C19_CopyOnlyAfterHeader ==
  /\ \A p \in Tasks :
       \A i \in DOMAIN AdminCalls(p) :
         /\ AdminCalls(p)[i].what = "copy" =>
              /\ i = 2
              /\ AdminCalls(p)[1].what = "header" /\ AdminCalls(p)[1].ok
         /\ (AdminCalls(p)[i].what = "header" /\ ~AdminCalls(p)[i].ok) =>
              Len(AdminCalls(p)) = i
  /\ \A j \in DOMAIN admin :
       admin[j].what = "copy" =>
         /\ j > 1
         /\ admin[j - 1].what = "header"
         /\ admin[j - 1].from = admin[j].from

\* a handler has finished whose header failed: it made no other call to
\* the administrator, and the administrator received nothing
C19_Witness ==
  \E p \in Tasks :
    /\ Finished(p) /\ IsMsg(p)
    /\ Whats(AdminCalls(p)) = <<"header">>
    /\ ~AdminCalls(p)[1].ok
    /\ admin = <<>>

---------------------------------------------------------------------------
(* C20 *)

ToUser(p) == SelectSeq(task[p].out, LAMBDA c : c.to = "user")

\* C20: what a forwarding handler sends the user does not depend on the
\* delivery to the administrator: header or copy failed or not, the user
\* is sent the acknowledgement (AUTO_REPLY on) and then the category
\* prompt, both in the language of the session; and the only copy ever
\* attempted by a handler is that of its own message.
C20_UserOutcomeRegardless ==
  \A p \in Tasks :
    /\ (Finished(p) /\ AdminCalls(p) # <<>>) =>
         /\ task[p].pre.lang \in Langs
         /\ Whats(ToUser(p)) = IF AUTO_REPLY THEN <<"ack", "prompt">> ELSE <<"prompt">>
         /\ \A i \in DOMAIN ToUser(p) :
              ToUser(p)[i].text = IF ToUser(p)[i].what = "ack"
                                    THEN ACK_TEXT[task[p].pre.lang]
                                    ELSE PROMPTS[task[p].pre.lang]
    /\ \A i \in DOMAIN task[p].out :
         task[p].out[i].what = "copy" => IsMsg(p) /\ task[p].out[i].text = task[p].evt.text

\* the copy failed, and the user got the acknowledgement and the prompt
C20_Witness ==
  \E p \in Tasks :
    /\ Finished(p) /\ IsMsg(p) /\ AUTO_REPLY
    /\ Len(AdminCalls(p)) = 2 /\ ~AdminCalls(p)[2].ok
    /\ Whats(ToUser(p)) = <<"ack", "prompt">>
    /\ \A i \in DOMAIN ToUser(p) : ToUser(p)[i].ok

---------------------------------------------------------------------------

Next ==
  \/ \E p \in Tasks, u \in Users, e \in Updates : Dispatch(p, u, e)
  \/ \E p \in Tasks : Start(p)
  \/ \E p \in Tasks : OnCb(p)
  \/ \E p \in Tasks : OnMessage(p)

Spec == Init /\ [][Next]_vars
====
